---- MODULE Spec2Model ----
(***************************************************************************)
(* Model of the URL scanning pipeline of src/security_scanners.py:         *)
(* scan_url, scan_url_with_gsb, scan_url_with_virustotal and               *)
(* _process_vt_report_verdict.                                             *)
(*                                                                         *)
(* A report text is a sequence of tokens.  A token is a fixed fragment of  *)
(* a format string, a formatted number, the public report link, or a text  *)
(* supplied by a provider.  Every token carries the set of marker          *)
(* substrings ("DANGER!", "Error:", "WARNING!", "safe" in any letter case) *)
(* that it contains, because scan_url routes on those substrings.          *)
(***************************************************************************)
EXTENDS Integers, Sequences, FiniteSets, TLC

\* ------------------------------------------------------------- bounds
\* Largest per-engine count a provider's statistics carry in the model.
MaxCount == 1
\* Largest threat type number, and longest list of matches, of a GSB body.
MaxThreatType == 2
MaxMatches == 2
\* Largest per-engine count of the statistics _process_vt_report_verdict is
\* applied to on its own.
MaxVerdictCount == 3

\* quiz: how many calls to Telegram may raise
MaxFailures == 2

\* ------------------------------------------------------------- program constants
retries == 10
initial_delay == 5
delay_step == 2
\* error_detail[:150]
DetailLimit == 150

\* ------------------------------------------------------------- texts
Tok(id, v, marks) == [id |-> id, v |-> v, marks |-> marks]

\* a fixed fragment of a format string, with the markers it contains
F(id, marks) == << Tok(id, << >>, marks) >>

\* a formatted number ({status_code}, {malicious}, ...)
Num(n) == << Tok("num", << n >>, {}) >>

\* A provider-supplied text: the marker it contains ("none": no marker) and
\* the position of the last character of that marker (0 without marker).
PlainText == [mark |-> "none", at |-> 0]

TextsWith(marks) ==
    {PlainText} \cup [mark : marks, at : {DetailLimit, DetailLimit + 1}]

\* text[:150]: a marker that ends after position 150 is cut off
Slice150(t) == IF t.at <= DetailLimit THEN t ELSE PlainText

\* a provider-supplied text embedded in a report
Embed(t) ==
    << Tok("text", << t.at >>, IF t.mark = "none" THEN {} ELSE {t.mark}) >>

\* `mark in text` (for "safe": `"safe" in text.lower()`)
Contains(text, mark) == \E k \in 1..Len(text) : mark \in text[k].marks

HasId(text, id) == \E k \in 1..Len(text) : text[k].id = id

Empty == << >>

\* ------------------------------------------------------------- inputs
\* A URL is its sequence of code points.
URLs == { << 97, 47 >>, << 55296 >> }

\* str.encode() and urllib.parse.quote() raise UnicodeEncodeError on a lone
\* surrogate (code points D800..DFFF).
Encodable(url) == \A k \in 1..Len(url) : url[k] \notin 55296..57343

\* UTF-8 bytes of one code point of the basic plane
Utf8(cp) ==
    IF cp < 128 THEN << cp >>
    ELSE IF cp < 2048 THEN << 192 + (cp \div 64), 128 + (cp % 64) >>
    ELSE << 224 + (cp \div 4096), 128 + ((cp \div 64) % 64), 128 + (cp % 64) >>

RECURSIVE Encode(_)
Encode(url) ==
    IF url = << >> THEN << >> ELSE Utf8(Head(url)) \o Encode(Tail(url))

\* base64.urlsafe_b64encode(bytes) with the "=" padding stripped, as the
\* sequence of 6-bit alphabet indices
RECURSIVE B64(_)
B64(bytes) ==
    IF Len(bytes) = 0 THEN << >>
    ELSE IF Len(bytes) = 1 THEN
        << bytes[1] \div 4, (bytes[1] % 4) * 16 >>
    ELSE IF Len(bytes) = 2 THEN
        << bytes[1] \div 4,
           (bytes[1] % 4) * 16 + (bytes[2] \div 16),
           (bytes[2] % 16) * 4 >>
    ELSE
        << bytes[1] \div 4,
           (bytes[1] % 4) * 16 + (bytes[2] \div 16),
           (bytes[2] % 16) * 4 + (bytes[3] \div 64),
           bytes[3] % 64 >>
        \o B64(SubSeq(bytes, 4, Len(bytes)))

\* mutant: the "=" padding (index 64) is not stripped
get_vt_url_id_padded(url) ==
    LET b == B64(Encode(url))
    IN  b \o [k \in 1..((4 - (Len(b) % 4)) % 4) |-> 64]

get_vt_url_id(url) == B64(Encode(url))

\* public_report_url = f"{VIRUSTOTAL_GUI_BASE_URL}{vt_url_id}/detection"
public_report_url(url) == << Tok("link", get_vt_url_id(url), {}) >>

\* ------------------------------------------------------------- GSB responses
\* status 0: the request failed in transport (httpx.RequestError).
\* shape of a 200 body: "json" (a dict whose "matches", when present, is a
\* list of {threatType}), "unparsable" (response.json() raises), "badshape"
\* (parsable, but reading it raises: a match without threatType, a body that
\* is no container).
GsbErrorStatuses == {400, 401, 403, 404, 500}

GsbDetails == TextsWith({"DANGER!", "Error:", "safe"})

ThreatTypes == 1..MaxThreatType

MatchLists == UNION { [1..n -> ThreatTypes] : n \in 0..MaxMatches }

GsbResp(status, shape, matches, detail) ==
    [status |-> status, shape |-> shape, matches |-> matches, detail |-> detail]

GsbResponses ==
    { GsbResp(0, "none", << >>, PlainText) }
    \cup { GsbResp(200, sh, << >>, PlainText) : sh \in {"unparsable", "badshape"} }
    \cup { GsbResp(200, "json", m, PlainText) : m \in MatchLists }
    \cup { GsbResp(s, "none", << >>, d) : s \in GsbErrorStatuses, d \in GsbDetails }

\* ", ".join(sorted(list(set(m["threatType"] for m in matches)))), formatted
RECURSIVE ThreatText(_, _)
ThreatText(types, from) ==
    IF from > MaxThreatType THEN << >>
    ELSE (IF from \in types THEN << Tok("threat", << from >>, {}) >> ELSE << >>)
         \o ThreatText(types, from + 1)

threat_types(matches) ==
    ThreatText({ matches[k] : k \in 1..Len(matches) }, 1)

GSB_NO_KEY == F("gsb_key_not_configured", {"Error:", "safe"})
GSB_DANGER(matches) ==
    F("gsb_danger_detected_as", {"DANGER!"}) \o threat_types(matches)
    \o F("gsb_danger_by_google_safe_browsing", {"safe"})
GSB_SAFE == F("gsb_appears_safe", {"safe"})
GSB_400(detail) == F("gsb_invalid_url", {}) \o Embed(detail)
GSB_403(detail) == F("gsb_access_denied", {"safe"}) \o Embed(detail)
GSB_404 == F("gsb_invalid_endpoint", {"Error:"})
GSB_OTHER(status, detail) ==
    F("gsb_issue_http_error", {"safe"}) \o Num(status)
    \o F("gsb_try_again_later", {}) \o Embed(Slice150(detail))
GSB_CONNECT == F("gsb_could_not_connect", {"safe", "Error:"})
GSB_UNEXPECTED == F("gsb_unexpected_error", {})

\* mutant: response.raise_for_status() is missing, an error body is read as
\* a body without matches
GsbReportNoRaise(r) ==
    IF r.status = 0 THEN GSB_CONNECT
    ELSE IF r.shape \in {"unparsable", "badshape"} THEN GSB_UNEXPECTED
    ELSE IF Len(r.matches) > 0 THEN GSB_DANGER(r.matches)
    ELSE GSB_SAFE

\* scan_url_with_gsb from the response on: the report it returns
GsbReport(r) ==
    IF r.status = 0 THEN GSB_CONNECT
    ELSE IF r.status = 200 THEN
        IF r.shape # "json" THEN GSB_UNEXPECTED
        ELSE IF Len(r.matches) > 0 THEN GSB_DANGER(r.matches)
        ELSE GSB_SAFE
    ELSE IF r.status = 400 THEN GSB_400(r.detail)
    ELSE IF r.status = 403 THEN GSB_403(r.detail)
    ELSE IF r.status = 404 THEN GSB_404
    ELSE GSB_OTHER(r.status, r.detail)

\* ------------------------------------------------------------- scan_url
\* mutant: "DANGER!" is not tested
BranchIgnoresDanger(gsb) ==
    IF Contains(gsb, "Error:") THEN "return"
    ELSE IF Contains(gsb, "safe") THEN "safe"
    ELSE "fallback"

\* mutant: "Error:" is not tested
BranchIgnoresError(gsb) ==
    IF Contains(gsb, "DANGER!") THEN "return"
    ELSE IF Contains(gsb, "safe") THEN "safe"
    ELSE "fallback"

\* which branch of scan_url a GSB report takes
Branch(gsb) ==
    IF Contains(gsb, "DANGER!") \/ Contains(gsb, "Error:") THEN "return"
    ELSE IF Contains(gsb, "safe") THEN "safe"
    ELSE "fallback"

SEPARATOR == F("separator_virustotal_scan", {})

\* mutant: the VirusTotal report is always appended to the GSB report
ComposeAlwaysAppends(branch, gsb, vt) ==
    IF branch = "safe" THEN gsb \o SEPARATOR \o vt ELSE vt

\* what scan_url returns once VirusTotal has answered
\* mutant: the VirusTotal report is always returned alone
ComposeDropsGsb(branch, gsb, vt) == vt

Compose(branch, gsb, vt) ==
    IF branch = "safe" THEN
        IF Contains(vt, "DANGER!") \/ Contains(vt, "WARNING!") THEN vt
        ELSE gsb \o SEPARATOR \o vt
    ELSE vt

\* ------------------------------------------------------------- VirusTotal responses
StatKeys == {"malicious", "suspicious", "harmless", "undetected"}

\* last_analysis_stats: a dict of some of the counts; the empty dict is falsy.
\* The responses carry all four counts, a single count, or none.
StatDomains == { K \in SUBSET StatKeys : Cardinality(K) \in {0, 1, 4} }

AllStats == UNION { [K -> 0..MaxCount] : K \in StatDomains }

NoStats == [k \in {} |-> 0]

\* last_analysis_stats.get(key, 0)
Get(stats, key) == IF key \in DOMAIN stats THEN stats[key] ELSE 0

VtTexts == TextsWith({"DANGER!", "WARNING!"})

VtResp(status, shape, stats, text) ==
    [status |-> status, shape |-> shape, stats |-> stats, text |-> text]

\* GET /urls/{id}.  Shapes of a 200 body: "json" (stats as given, possibly
\* none), "unparsable", "badshape" (reading it raises).
VtLookupResponses ==
    { VtResp(s, "none", NoStats, PlainText) : s \in {0, 204, 401, 403, 404} }
    \cup { VtResp(200, sh, NoStats, PlainText) : sh \in {"unparsable", "badshape"} }
    \cup { VtResp(200, "json", st, PlainText) : st \in AllStats }
    \cup { VtResp(s, "none", NoStats, d) : s \in {400, 500}, d \in VtTexts }

\* POST /urls.  Shapes of a 400 body: "canonicalize" (InvalidArgumentError,
\* "canonicalize url" in the message), "wrongid" (BadRequestError, "Wrong URL
\* id" in the message), "other" (any other error, with its message), "nomsg"
\* (no error message), "unparsable", "badshape".  Shapes of a 2xx body: "id"
\* (data.id present), "noid", "unparsable", "badshape".
VtSubmitResponses ==
    { VtResp(0, "none", NoStats, PlainText) }
    \cup { VtResp(400, sh, NoStats, PlainText) :
             sh \in {"canonicalize", "wrongid", "nomsg", "unparsable", "badshape"} }
    \cup { VtResp(400, "other", NoStats, m) : m \in VtTexts }
    \cup { VtResp(s, "none", NoStats, d) : s \in {403, 500}, d \in VtTexts }
    \cup { VtResp(200, sh, NoStats, PlainText) :
             sh \in {"id", "noid", "unparsable", "badshape"} }

\* GET /analyses/{id}.  Shapes of a 200 body: "error" (an error field with a
\* message), "error_nomsg", "completed" (with stats), "queued", "running",
\* "other" (any other status string), "nostatus", "unparsable", "badshape";
\* "error_completed" and "error_queued" carry an error field with a message
\* next to that status (and, when completed, statistics).
ErrorShapes == {"error", "error_completed", "error_queued"}

VtPollResponses ==
    { VtResp(s, "none", NoStats, PlainText) : s \in {0, 204, 404} }
    \cup { VtResp(200, sh, NoStats, PlainText) :
             sh \in {"error_nomsg", "error_badshape", "queued", "running",
                     "nostatus", "unparsable", "badshape"} }
    \cup { VtResp(200, sh, NoStats, m) : sh \in {"error", "other"}, m \in VtTexts }
    \cup { VtResp(200, "completed", st, PlainText) : st \in AllStats }
    \cup { VtResp(200, "error_completed", [k \in StatKeys |-> MaxCount], PlainText),
           VtResp(200, "error_queued", NoStats, PlainText) }
    \cup { VtResp(403, "none", NoStats, PlainText) }
    \cup { VtResp(500, "none", NoStats, d) : d \in VtTexts }

\* ------------------------------------------------------------- VirusTotal reports
VT_NO_KEY == F("vt_key_not_configured", {"Error:"})
VT_401 == F("vt_api_key_error", {})
VT_403 == F("vt_access_denied_quota", {})
\* mutant: the generic error report without the status code
VT_HTTP_ERROR_NoStatus(status, detail) ==
    F("vt_scanning_issue_http_error", {}) \o F("vt_try_again_details", {})
    \o Embed(Slice150(detail))

VT_HTTP_ERROR(status, detail) ==
    F("vt_scanning_issue_http_error", {}) \o Num(status)
    \o F("vt_try_again_details", {}) \o Embed(Slice150(detail))
VT_CONNECT == F("vt_connection_error", {"Error:"})
VT_UNEXPECTED == F("vt_unexpected_scan_error", {})
VT_INVALID_FORMAT(link) == F("vt_invalid_url_format", {}) \o link
VT_COMMON_URL(link) == F("vt_could_not_initiate_common_url", {}) \o link
VT_SUBMIT_ISSUE(message) ==
    F("vt_issue_submitting", {}) \o message \o F("vt_try_later", {})
VT_NO_ID == F("vt_no_analysis_id", {})
VT_FETCH_ERROR(message) ==
    F("vt_error_fetching_report", {}) \o message \o F("vt_try_again", {})
VT_PROCESSING_STATUS(status, link) ==
    F("vt_still_processing", {}) \o F(status, {}) \o link
VT_PROCESSING(link) == F("vt_still_processing", {}) \o link
VT_UNEXPECTED_STATUS(status, link) ==
    F("vt_unexpected_status", {}) \o status \o link
\* mutant: the timed-out report without the link
VT_TIMED_OUT_NoLink(link) == F("vt_timed_out", {})
VT_TIMED_OUT(link) == F("vt_timed_out", {}) \o link

\* mutant: the harmless count is tested before the detections
VerdictHarmlessFirst(stats, link) ==
    LET malicious == Get(stats, "malicious")
        suspicious == Get(stats, "suspicious")
        harmless == Get(stats, "harmless")
        undetected == Get(stats, "undetected")
    IN  IF harmless > 0 THEN
            F("vt_appears_safe", {"safe"}) \o Num(harmless)
            \o F("vt_harmless_no_threats", {}) \o link
        ELSE IF malicious + suspicious > 0 THEN
            F("vt_danger", {"DANGER!"}) \o Num(malicious)
            \o F("vt_malicious_and", {}) \o Num(suspicious)
            \o F("vt_suspicious_do_not_click", {}) \o link
        ELSE
            F("vt_inconclusive", {}) \o Num(undetected)
            \o F("vt_exercise_caution", {}) \o link

\* _process_vt_report_verdict(attributes, public_report_url)
_process_vt_report_verdict(stats, link) ==
    LET malicious == Get(stats, "malicious")
        suspicious == Get(stats, "suspicious")
        harmless == Get(stats, "harmless")
        undetected == Get(stats, "undetected")
        total_bad == malicious + suspicious
    IN  IF total_bad > 0 THEN
            F("vt_danger", {"DANGER!"}) \o Num(malicious)
            \o F("vt_malicious_and", {}) \o Num(suspicious)
            \o F("vt_suspicious_do_not_click", {}) \o link
        ELSE IF harmless > 0 THEN
            F("vt_appears_safe", {"safe"}) \o Num(harmless)
            \o F("vt_harmless_no_threats", {}) \o link
        ELSE
            F("vt_inconclusive", {}) \o Num(undetected)
            \o F("vt_exercise_caution", {}) \o link

Return(text) == [next |-> "return", text |-> text, verdict |-> FALSE]
\* mutant: the verdict is computed without the statistics of the response
VerdictIgnoresStats(stats, link) ==
    [next |-> "return", text |-> _process_vt_report_verdict(NoStats, link),
     verdict |-> TRUE]

Verdict(stats, link) ==
    [next |-> "return", text |-> _process_vt_report_verdict(stats, link),
     verdict |-> TRUE]
Goto(next) == [next |-> next, text |-> Empty, verdict |-> FALSE]

\* mutant: an existing report is never used, a 200 lookup always goes on to
\* the submission
LookupStepAlwaysSubmits(r, link) ==
    IF r.status = 0 THEN Return(VT_CONNECT)
    ELSE IF r.status = 200 THEN
        IF r.shape # "json" THEN Return(VT_UNEXPECTED)
        ELSE Goto("submit")
    ELSE IF r.status = 404 THEN Goto("submit")
    ELSE IF r.status = 401 THEN Return(VT_401)
    ELSE IF r.status = 403 THEN Return(VT_403)
    ELSE IF r.status \in 200..299 THEN Goto("submit")
    ELSE Return(VT_HTTP_ERROR(r.status, r.text))

\* mutant: 403 is not told apart from 404
LookupStepSubmitsOn403(r, link) ==
    IF r.status = 0 THEN Return(VT_CONNECT)
    ELSE IF r.status = 200 THEN
        IF r.shape # "json" THEN Return(VT_UNEXPECTED)
        ELSE IF r.stats # NoStats THEN Verdict(r.stats, link)
        ELSE Goto("submit")
    ELSE IF r.status \in {403, 404} THEN Goto("submit")
    ELSE IF r.status = 401 THEN Return(VT_401)
    ELSE IF r.status \in 200..299 THEN Goto("submit")
    ELSE Return(VT_HTTP_ERROR(r.status, r.text))

\* scan_url_with_virustotal, from the lookup response to the submission
LookupStep(r, link) ==
    IF r.status = 0 THEN Return(VT_CONNECT)
    ELSE IF r.status = 200 THEN
        IF r.shape # "json" THEN Return(VT_UNEXPECTED)
        ELSE IF r.stats # NoStats THEN Verdict(r.stats, link)
        ELSE Goto("submit")
    ELSE IF r.status = 404 THEN Goto("submit")
    ELSE IF r.status = 401 THEN Return(VT_401)
    ELSE IF r.status = 403 THEN Return(VT_403)
    ELSE IF r.status \in 200..299 THEN Goto("submit")
    ELSE Return(VT_HTTP_ERROR(r.status, r.text))

\* mutant: raise_for_status() comes before the handling of 400
SubmitStepRaisesFirst(r, link) ==
    IF r.status = 0 THEN Return(VT_CONNECT)
    ELSE IF r.status \notin 200..299 THEN Return(VT_HTTP_ERROR(r.status, r.text))
    ELSE IF r.shape \in {"unparsable", "badshape"} THEN Return(VT_UNEXPECTED)
    ELSE IF r.shape # "id" THEN Return(VT_NO_ID)
    ELSE Goto("poll")

\* mutant: the "if not analysis_id" check is missing
SubmitStepNoIdCheck(r, link) ==
    IF r.status = 0 THEN Return(VT_CONNECT)
    ELSE IF r.status = 400 THEN
        IF r.shape \in {"unparsable", "badshape"} THEN Return(VT_UNEXPECTED)
        ELSE IF r.shape = "canonicalize" THEN Return(VT_INVALID_FORMAT(link))
        ELSE IF r.shape = "wrongid" THEN Return(VT_COMMON_URL(link))
        ELSE IF r.shape = "nomsg" THEN
            Return(VT_SUBMIT_ISSUE(F("vt_malformed_url_or_api_error", {})))
        ELSE Return(VT_SUBMIT_ISSUE(Embed(r.text)))
    ELSE IF r.status \notin 200..299 THEN Return(VT_HTTP_ERROR(r.status, r.text))
    ELSE IF r.shape \in {"unparsable", "badshape"} THEN Return(VT_UNEXPECTED)
    ELSE Goto("poll")

\* scan_url_with_virustotal, from the submit response to the polling loop
SubmitStep(r, link) ==
    IF r.status = 0 THEN Return(VT_CONNECT)
    ELSE IF r.status = 400 THEN
        IF r.shape \in {"unparsable", "badshape"} THEN Return(VT_UNEXPECTED)
        ELSE IF r.shape = "canonicalize" THEN Return(VT_INVALID_FORMAT(link))
        ELSE IF r.shape = "wrongid" THEN Return(VT_COMMON_URL(link))
        ELSE IF r.shape = "nomsg" THEN
            Return(VT_SUBMIT_ISSUE(F("vt_malformed_url_or_api_error", {})))
        ELSE Return(VT_SUBMIT_ISSUE(Embed(r.text)))
    ELSE IF r.status \notin 200..299 THEN Return(VT_HTTP_ERROR(r.status, r.text))
    ELSE IF r.shape \in {"unparsable", "badshape"} THEN Return(VT_UNEXPECTED)
    ELSE IF r.shape # "id" THEN Return(VT_NO_ID)
    ELSE Goto("poll")

\* mutant: the last attempt is not told apart, a pending report always
\* continues the loop
PollStepNoLastAttempt(r, i, link) ==
    IF r.status = 0 THEN Return(VT_CONNECT)
    ELSE IF r.status = 200 THEN
        IF r.shape \in {"unparsable", "badshape", "error_badshape"} THEN
            Return(VT_UNEXPECTED)
        ELSE IF r.shape \in ErrorShapes THEN Return(VT_FETCH_ERROR(Embed(r.text)))
        ELSE IF r.shape = "error_nomsg" THEN
            Return(VT_FETCH_ERROR(F("vt_unknown_api_error", {})))
        ELSE IF r.shape = "completed" THEN Verdict(r.stats, link)
        ELSE IF r.shape \in {"queued", "running"} THEN Goto("continue")
        ELSE IF r.shape = "nostatus" THEN
            Return(VT_UNEXPECTED_STATUS(F("None", {}), link))
        ELSE Return(VT_UNEXPECTED_STATUS(Embed(r.text), link))
    ELSE IF r.status = 404 THEN Goto("continue")
    ELSE IF r.status \in 200..299 THEN Goto("continue")
    ELSE Return(VT_HTTP_ERROR(r.status, r.text))

\* mutant: every status other than 200 and 404 raises
PollStepRaisesOn2xx(r, i, link) ==
    IF r.status = 0 THEN Return(VT_CONNECT)
    ELSE IF r.status = 200 THEN
        IF r.shape \in {"unparsable", "badshape", "error_badshape"} THEN
            Return(VT_UNEXPECTED)
        ELSE IF r.shape \in ErrorShapes THEN Return(VT_FETCH_ERROR(Embed(r.text)))
        ELSE IF r.shape = "error_nomsg" THEN
            Return(VT_FETCH_ERROR(F("vt_unknown_api_error", {})))
        ELSE IF r.shape = "completed" THEN Verdict(r.stats, link)
        ELSE IF r.shape \in {"queued", "running"} THEN
            IF i = retries - 1 THEN Return(VT_PROCESSING_STATUS(r.shape, link))
            ELSE Goto("continue")
        ELSE IF r.shape = "nostatus" THEN
            Return(VT_UNEXPECTED_STATUS(F("None", {}), link))
        ELSE Return(VT_UNEXPECTED_STATUS(Embed(r.text), link))
    ELSE IF r.status = 404 THEN
        IF i = retries - 1 THEN Return(VT_PROCESSING(link)) ELSE Goto("continue")
    ELSE Return(VT_HTTP_ERROR(r.status, r.text))

\* mutant: a 404 answer is not taken as "not yet available"
PollStep404Terminal(r, i, link) ==
    IF r.status = 0 THEN Return(VT_CONNECT)
    ELSE IF r.status = 200 THEN
        IF r.shape \in {"unparsable", "badshape", "error_badshape"} THEN
            Return(VT_UNEXPECTED)
        ELSE IF r.shape \in ErrorShapes THEN Return(VT_FETCH_ERROR(Embed(r.text)))
        ELSE IF r.shape = "error_nomsg" THEN
            Return(VT_FETCH_ERROR(F("vt_unknown_api_error", {})))
        ELSE IF r.shape = "completed" THEN Verdict(r.stats, link)
        ELSE IF r.shape \in {"queued", "running"} THEN
            IF i = retries - 1 THEN Return(VT_PROCESSING_STATUS(r.shape, link))
            ELSE Goto("continue")
        ELSE IF r.shape = "nostatus" THEN
            Return(VT_UNEXPECTED_STATUS(F("None", {}), link))
        ELSE Return(VT_UNEXPECTED_STATUS(Embed(r.text), link))
    ELSE IF r.status \in 200..299 THEN Goto("continue")
    ELSE Return(VT_HTTP_ERROR(r.status, r.text))

\* mutant: a 5xx answer is retried while attempts remain
PollStepRetries5xx(r, i, link) ==
    IF r.status = 0 THEN Return(VT_CONNECT)
    ELSE IF r.status = 200 THEN
        IF r.shape \in {"unparsable", "badshape", "error_badshape"} THEN
            Return(VT_UNEXPECTED)
        ELSE IF r.shape \in ErrorShapes THEN Return(VT_FETCH_ERROR(Embed(r.text)))
        ELSE IF r.shape = "error_nomsg" THEN
            Return(VT_FETCH_ERROR(F("vt_unknown_api_error", {})))
        ELSE IF r.shape = "completed" THEN Verdict(r.stats, link)
        ELSE IF r.shape \in {"queued", "running"} THEN
            IF i = retries - 1 THEN Return(VT_PROCESSING_STATUS(r.shape, link))
            ELSE Goto("continue")
        ELSE IF r.shape = "nostatus" THEN
            Return(VT_UNEXPECTED_STATUS(F("None", {}), link))
        ELSE Return(VT_UNEXPECTED_STATUS(Embed(r.text), link))
    ELSE IF r.status = 404 THEN
        IF i = retries - 1 THEN Return(VT_PROCESSING(link)) ELSE Goto("continue")
    ELSE IF r.status \in 200..299 THEN Goto("continue")
    ELSE IF r.status >= 500 /\ i < retries - 1 THEN Goto("continue")
    ELSE Return(VT_HTTP_ERROR(r.status, r.text))

\* mutant: a status that is not known is taken as "still pending"
PollStepRetriesUnknown(r, i, link) ==
    IF r.status = 0 THEN Return(VT_CONNECT)
    ELSE IF r.status = 200 THEN
        IF r.shape \in {"unparsable", "badshape", "error_badshape"} THEN
            Return(VT_UNEXPECTED)
        ELSE IF r.shape \in ErrorShapes THEN Return(VT_FETCH_ERROR(Embed(r.text)))
        ELSE IF r.shape = "error_nomsg" THEN
            Return(VT_FETCH_ERROR(F("vt_unknown_api_error", {})))
        ELSE IF r.shape = "completed" THEN Verdict(r.stats, link)
        ELSE IF i = retries - 1 THEN Return(VT_PROCESSING_STATUS(r.shape, link))
        ELSE Goto("continue")
    ELSE IF r.status = 404 THEN
        IF i = retries - 1 THEN Return(VT_PROCESSING(link)) ELSE Goto("continue")
    ELSE IF r.status \in 200..299 THEN Goto("continue")
    ELSE Return(VT_HTTP_ERROR(r.status, r.text))

\* mutant: the status of the body is looked at before its error field
PollStepStatusFirst(r, i, link) ==
    IF r.status = 0 THEN Return(VT_CONNECT)
    ELSE IF r.status = 200 THEN
        IF r.shape \in {"unparsable", "badshape", "error_badshape"} THEN
            Return(VT_UNEXPECTED)
        ELSE IF r.shape \in {"completed", "error_completed"} THEN
            Verdict(r.stats, link)
        ELSE IF r.shape \in {"queued", "running"} THEN
            IF i = retries - 1 THEN Return(VT_PROCESSING_STATUS(r.shape, link))
            ELSE Goto("continue")
        ELSE IF r.shape = "error_queued" THEN
            IF i = retries - 1 THEN Return(VT_PROCESSING_STATUS("queued", link))
            ELSE Goto("continue")
        ELSE IF r.shape \in ErrorShapes THEN Return(VT_FETCH_ERROR(Embed(r.text)))
        ELSE IF r.shape = "error_nomsg" THEN
            Return(VT_FETCH_ERROR(F("vt_unknown_api_error", {})))
        ELSE IF r.shape = "nostatus" THEN
            Return(VT_UNEXPECTED_STATUS(F("None", {}), link))
        ELSE Return(VT_UNEXPECTED_STATUS(Embed(r.text), link))
    ELSE IF r.status = 404 THEN
        IF i = retries - 1 THEN Return(VT_PROCESSING(link)) ELSE Goto("continue")
    ELSE IF r.status \in 200..299 THEN Goto("continue")
    ELSE Return(VT_HTTP_ERROR(r.status, r.text))

\* one iteration of the polling loop, from the poll response on
PollStep(r, i, link) ==
    IF r.status = 0 THEN Return(VT_CONNECT)
    ELSE IF r.status = 200 THEN
        IF r.shape \in {"unparsable", "badshape", "error_badshape"} THEN
            Return(VT_UNEXPECTED)
        ELSE IF r.shape \in ErrorShapes THEN Return(VT_FETCH_ERROR(Embed(r.text)))
        ELSE IF r.shape = "error_nomsg" THEN
            Return(VT_FETCH_ERROR(F("vt_unknown_api_error", {})))
        ELSE IF r.shape = "completed" THEN Verdict(r.stats, link)
        ELSE IF r.shape \in {"queued", "running"} THEN
            IF i = retries - 1 THEN Return(VT_PROCESSING_STATUS(r.shape, link))
            ELSE Goto("continue")
        ELSE IF r.shape = "nostatus" THEN
            Return(VT_UNEXPECTED_STATUS(F("None", {}), link))
        ELSE Return(VT_UNEXPECTED_STATUS(Embed(r.text), link))
    ELSE IF r.status = 404 THEN
        IF i = retries - 1 THEN Return(VT_PROCESSING(link)) ELSE Goto("continue")
    ELSE IF r.status \in 200..299 THEN Goto("continue")
    ELSE Return(VT_HTTP_ERROR(r.status, r.text))

\* ------------------------------------------------------------- state
VARIABLES
    url,              \* the URL being scanned
    gsb_key,          \* GOOGLE_SAFE_BROWSE_API_KEY is set
    vt_key,           \* VIRUSTOTAL_API_KEY is set
    pc,               \* where the scan is suspended
    i,                \* loop index of the polling loop
    gsb_result,       \* scan_url: gsb_result
    vt_result,        \* scan_url: vt_result
    branch,           \* the branch scan_url took on gsb_result
    result,           \* what scan_url returned
    gsb_response,     \* status and shape of the GSB response
    report_response,  \* status and shape of the last lookup or poll response
    submit_response,  \* status and shape of the submit response
    attributes,       \* the statistics last handed to _process_vt_report_verdict
    verdicts,         \* number of calls of _process_vt_report_verdict
    requests,         \* number of requests issued, per endpoint
    current_delay,    \* the delay of the last sleep
    all_pending,      \* every poll response so far was queued, running or 404
    received,         \* concurrent scans: the events delivered to each scan
    waited,           \* the sum of the delays slept so far
    user_data,        \* quiz: context.user_data of the one user
    quiz_log          \* quiz: what the handlers have scored, replied and reported

vars ==
    << url, gsb_key, vt_key, pc, i, gsb_result, vt_result, branch, result,
       gsb_response, report_response, submit_response, attributes, verdicts,
       requests, current_delay, all_pending, received, waited,
                    user_data, quiz_log >>

\* context.user_data without any quiz key
EmptyUserData == [k \in {} |-> 0]

\* callback data that is no quiz button: no press handled yet
NoPress == [parts |-> 0, topic |-> "none", question_id |-> 0, option |-> "none"]

\* nothing scored, replied or reported yet.  press is the callback data the
\* last handler worked on, load what a quiz start found ("ok", "empty",
\* "exception"), raised whether the last handler ended by an exception.
EmptyQuizLog ==
    [right |-> {}, reported |-> << >>, reply |-> "none", failures |-> 0,
     press |-> NoPress, load |-> "none", raised |-> FALSE]

Obs(r) == [status |-> r.status, shape |-> r.shape]

NoResponse == [status |-> -1, shape |-> "none"]

GsbObs(r) == [status |-> r.status, shape |-> r.shape, matches |-> Len(r.matches)]

NoGsbResponse == [status |-> -1, shape |-> "none", matches |-> 0]

\* mutant: the loop index is never advanced
NextIndexStuck(n) == n

\* mutant: the loop has no bound
LoopUnbounded(n) == TRUE

\* `for i in range(retries)`: after iteration n the loop goes on to the next
\* index while one is left
NextIndex(n) == n + 1

LoopContinues(n) == NextIndex(n) < retries

\* requests are counted up to one more than the loop can issue
PollCap == retries + 1

\* mutant: the same delay before every attempt
DelayConstant(n) == initial_delay

\* current_delay = initial_delay + (i * 2)
Delay(n) == initial_delay + (n * delay_step)

Init ==
    /\ url \in URLs
    /\ gsb_key \in BOOLEAN
    /\ vt_key \in BOOLEAN
    /\ pc = "start"
    /\ i = 0
    /\ gsb_result = Empty
    /\ vt_result = Empty
    /\ branch = "none"
    /\ result = Empty
    /\ gsb_response = NoGsbResponse
    /\ report_response = NoResponse
    /\ submit_response = NoResponse
    /\ attributes = NoStats
    /\ verdicts = 0
    /\ requests = [gsb |-> 0, lookup |-> 0, submit |-> 0, poll |-> 0]
    /\ current_delay = 0
    /\ all_pending = TRUE
    /\ received = << >>
    /\ waited = 0
    /\ user_data = EmptyUserData
    /\ quiz_log = EmptyQuizLog

\* scan_url_with_virustotal returns vt (after a verdict on stats, if any);
\* scan_url composes its result
VtReturns(step, stats) ==
    /\ pc' = "done"
    /\ vt_result' = step.text
    /\ result' = Compose(branch, gsb_result, step.text)
    /\ attributes' = stats
    /\ verdicts' = IF step.verdict THEN verdicts + 1 ELSE verdicts

\* attributes = report_json.get("data", {}).get("attributes", {}): assigned
\* when a 200 body was parsed and carried no error field
Attributes(r) ==
    IF r.status = 200
       /\ r.shape \in {"json", "completed", "queued", "running", "other", "nostatus"}
    THEN r.stats
    ELSE attributes

\* scan_url from the return of scan_url_with_gsb up to the next suspension:
\* the branch on gsb, and scan_url_with_virustotal up to the lookup request
AfterGsb(gsb) ==
    LET br == Branch(gsb)
    IN  /\ gsb_result' = gsb
        /\ branch' = br
        /\ IF br = "return" THEN
                /\ pc' = "done"
                /\ result' = gsb
                /\ UNCHANGED << vt_result, requests >>
           ELSE IF ~vt_key THEN
                /\ pc' = "done"
                /\ vt_result' = VT_NO_KEY
                /\ result' = Compose(br, gsb, VT_NO_KEY)
                /\ UNCHANGED requests
           ELSE IF ~Encodable(url) THEN
                /\ pc' = "raised"
                /\ UNCHANGED << vt_result, result, requests >>
           ELSE
                /\ pc' = "vt_lookup"
                /\ requests' = [requests EXCEPT !.lookup = @ + 1]
                /\ UNCHANGED << vt_result, result >>

\* scan_url is called: scan_url_with_gsb up to its request
ScanUrl ==
    /\ pc = "start"
    /\ IF ~gsb_key THEN
            AfterGsb(GSB_NO_KEY)
       ELSE IF ~Encodable(url) THEN
            /\ pc' = "raised"
            /\ UNCHANGED << gsb_result, vt_result, branch, result, requests >>
       ELSE
            /\ pc' = "gsb_request"
            /\ requests' = [requests EXCEPT !.gsb = @ + 1]
            /\ UNCHANGED << gsb_result, vt_result, branch, result >>
    /\ UNCHANGED << url, gsb_key, vt_key, i, gsb_response, report_response,
                    submit_response, attributes, verdicts, current_delay, all_pending, received, waited,
                    user_data, quiz_log >>

\* the GSB request completes
GsbResponse ==
    /\ pc = "gsb_request"
    /\ \E r \in GsbResponses :
        /\ gsb_response' = GsbObs(r)
        /\ AfterGsb(GsbReport(r))
    /\ UNCHANGED << url, gsb_key, vt_key, i, report_response, submit_response,
                    attributes, verdicts, current_delay, all_pending, received, waited,
                    user_data, quiz_log >>

\* the lookup request completes
LookupResponse ==
    /\ pc = "vt_lookup"
    /\ \E r \in VtLookupResponses :
        LET step == LookupStep(r, public_report_url(url))
        IN  /\ report_response' = Obs(r)
            /\ IF step.next = "return" THEN
                    /\ VtReturns(step, Attributes(r))
                    /\ UNCHANGED requests
               ELSE
                    /\ pc' = "vt_submit"
                    /\ requests' = [requests EXCEPT !.submit = @ + 1]
                    /\ attributes' = Attributes(r)
                    /\ UNCHANGED << vt_result, result, verdicts >>
    /\ UNCHANGED << url, gsb_key, vt_key, i, gsb_result, branch, gsb_response,
                    submit_response, current_delay, all_pending, received, waited,
                    user_data, quiz_log >>

\* the submit request completes
SubmitResponse ==
    /\ pc = "vt_submit"
    /\ \E r \in VtSubmitResponses :
        LET step == SubmitStep(r, public_report_url(url))
        IN  /\ submit_response' = Obs(r)
            /\ IF step.next = "return" THEN
                    VtReturns(step, attributes)
               ELSE
                    /\ pc' = "vt_sleep"
                    /\ UNCHANGED << vt_result, result, attributes, verdicts >>
    /\ i' = 0
    /\ UNCHANGED << url, gsb_key, vt_key, gsb_result, branch, gsb_response,
                    report_response, requests, current_delay, all_pending, received, waited,
                    user_data, quiz_log >>

\* asyncio.sleep(current_delay) completes and the poll request is issued
Sleep ==
    /\ pc = "vt_sleep"
    /\ current_delay' = Delay(i)
    /\ waited' = IF requests.poll < PollCap THEN waited + Delay(i) ELSE waited
    /\ requests' = [requests EXCEPT !.poll = IF @ < PollCap THEN @ + 1 ELSE @]
    /\ pc' = "vt_poll"
    /\ UNCHANGED << url, gsb_key, vt_key, i, gsb_result, vt_result, branch,
                    result, gsb_response, report_response, submit_response,
                    attributes, verdicts, all_pending, received,
                    user_data, quiz_log >>

Pending(r) ==
    \/ r.status = 200 /\ r.shape \in {"queued", "running"}
    \/ r.status = 404

\* the poll request completes
PollResponse ==
    /\ pc = "vt_poll"
    /\ \E r \in VtPollResponses :
        LET step == PollStep(r, i, public_report_url(url))
        IN  /\ report_response' = Obs(r)
            /\ all_pending' = (all_pending /\ Pending(r))
            /\ IF step.next = "return" THEN
                    /\ VtReturns(step, Attributes(r))
                    /\ i' = i
               ELSE IF LoopContinues(i) THEN
                    /\ pc' = "vt_sleep"
                    /\ i' = NextIndex(i)
                    /\ attributes' = Attributes(r)
                    /\ UNCHANGED << vt_result, result, verdicts >>
               ELSE
                    /\ VtReturns(Return(VT_TIMED_OUT(public_report_url(url))),
                                 Attributes(r))
                    /\ i' = i
    /\ UNCHANGED << url, gsb_key, vt_key, gsb_result, branch, gsb_response,
                    submit_response, requests, current_delay, received, waited,
                    user_data, quiz_log >>

Next ==
    \/ ScanUrl
    \/ GsbResponse
    \/ LookupResponse
    \/ SubmitResponse
    \/ Sleep
    \/ PollResponse

Spec == Init /\ [][Next]_vars

\* every network call and every sleep eventually completes
FairSpec == Spec /\ WF_vars(Next)

\* ------------------------------------------------------------- the verdict alone
\* _process_vt_report_verdict applied to statistics drawn from a wider range
VerdictStats == UNION { [K -> 0..MaxVerdictCount] : K \in SUBSET StatKeys }

VerdictInit ==
    /\ url \in { u \in URLs : Encodable(u) }
    /\ gsb_key = TRUE
    /\ vt_key = TRUE
    /\ pc = "verdict"
    /\ i = 0
    /\ gsb_result = Empty
    /\ vt_result = Empty
    /\ branch = "none"
    /\ result = Empty
    /\ gsb_response = NoGsbResponse
    /\ report_response = NoResponse
    /\ submit_response = NoResponse
    /\ attributes \in VerdictStats
    /\ verdicts = 0
    /\ requests = [gsb |-> 0, lookup |-> 0, submit |-> 0, poll |-> 0]
    /\ current_delay = 0
    /\ all_pending = TRUE
    /\ received = << >>
    /\ waited = 0
    /\ user_data = EmptyUserData
    /\ quiz_log = EmptyQuizLog

ProcessVerdict ==
    /\ pc = "verdict"
    /\ pc' = "verdict_done"
    /\ vt_result' = _process_vt_report_verdict(attributes, public_report_url(url))
    /\ verdicts' = verdicts + 1
    /\ UNCHANGED << url, gsb_key, vt_key, i, gsb_result, branch, result,
                    gsb_response, report_response, submit_response, attributes,
                    requests, current_delay, all_pending, received, waited,
                    user_data, quiz_log >>

VerdictSpec == VerdictInit /\ [][ProcessVerdict]_vars

\* ------------------------------------------------------------- quiz
\* quiz_callback_handler (src/handlers/quiz.py) for one user.  The handlers
\* of one user run one after the other; a handler ends early when a call to
\* Telegram raises.  user_data is a function from the keys present to their
\* values.
QUIZ_STATE == "QUIZ_STATE"
CURRENT_QUESTION_INDEX == "CURRENT_QUESTION_INDEX"
CORRECT_ANSWERS_COUNT == "CORRECT_ANSWERS_COUNT"
QUIZ_DATA == "QUIZ_DATA"
QUIZ_TOPIC == "QUIZ_TOPIC"

QuizKeys ==
    {QUIZ_STATE, CURRENT_QUESTION_INDEX, CORRECT_ANSWERS_COUNT, QUIZ_DATA, QUIZ_TOPIC}

\* user_data[k] = v
Put(d, k, v) == [x \in (DOMAIN d) \cup {k} |-> IF x = k THEN v ELSE d[x]]

\* user_data.pop(k, None)
Pop(d, k) == [x \in (DOMAIN d) \ {k} |-> d[x]]

\* user_data.get(k, default)
GetOr(d, k, default) == IF k \in DOMAIN d THEN d[k] ELSE default

Topics == {"fake_profile", "privacy"}

Options == {"A", "B"}

QuestionIds == {1, 2, 3}

Question(id, correct) == [question_id |-> id, correct_answer |-> correct]

\* the documents of the collection "quizzes", as lists of questions
QuizStore(topic) ==
    IF topic = "fake_profile"
    THEN << Question(1, "A"), Question(2, "B") >>
    ELSE << Question(1, "B"), Question(3, "A") >>

\* random.sample(questions, len(questions)): the questions in any order
Shuffles(doc) ==
    { p \in [1..Len(doc) -> { doc[k] : k \in 1..Len(doc) }] :
        \A a, b \in 1..Len(doc) : a # b => p[a] # p[b] }

\* what get_content yields for a topic: the document, shuffled, or nothing
\* usable (no database, no document, no questions): << >>
Loads(topic) == { << >> } \cup Shuffles(QuizStore(topic))

\* callback data of an answer button, "topic|question_id|option", or data
\* that does not split in three parts
AnswerPresses ==
    { [parts |-> 3, topic |-> t, question_id |-> q, option |-> o] :
        t \in Topics, q \in QuestionIds, o \in Options }
    \cup { [parts |-> 2, topic |-> "none", question_id |-> 0, option |-> "none"] }

\* the variables of the scans, which the quiz leaves alone
scan_vars ==
    << url, gsb_key, vt_key, pc, i, gsb_result, vt_result, branch, result,
       gsb_response, report_response, submit_response, attributes, verdicts,
       requests, current_delay, all_pending, received, waited >>

QuizInit ==
    /\ url = << 97, 47 >>
    /\ gsb_key = TRUE
    /\ vt_key = TRUE
    /\ pc = "quiz"
    /\ i = 0
    /\ gsb_result = Empty
    /\ vt_result = Empty
    /\ branch = "none"
    /\ result = Empty
    /\ gsb_response = NoGsbResponse
    /\ report_response = NoResponse
    /\ submit_response = NoResponse
    /\ attributes = NoStats
    /\ verdicts = 0
    /\ requests = [gsb |-> 0, lookup |-> 0, submit |-> 0, poll |-> 0]
    /\ current_delay = 0
    /\ all_pending = TRUE
    /\ received = << >>
    /\ waited = 0
    /\ user_data = EmptyUserData
    /\ quiz_log = EmptyQuizLog

\* _end_quiz: the final message, then the five keys are removed
FinalMessage(d, log) ==
    [ score |-> GetOr(d, CORRECT_ANSWERS_COUNT, 0),
      total |-> IF QUIZ_DATA \in DOMAIN d THEN Len(d[QUIZ_DATA]) ELSE 0,
      right |-> Cardinality(log.right) ]

EndQuiz(d) == [x \in (DOMAIN d) \ QuizKeys |-> d[x]]

\* a call to Telegram may raise; at most MaxFailures do
MayFail(ok) == ok \/ quiz_log.failures < MaxFailures

\* callback data "start_quiz_<topic>"
StartData(topic) ==
    [parts |-> 1, topic |-> topic, question_id |-> 0, option |-> "start_quiz"]

\* what a handler leaves in the log: the reply that was sent, if one was
Handled(log, press, load, reply, ok) ==
    [log EXCEPT !.press = press, !.load = load,
                !.reply = IF ok THEN reply ELSE "none",
                !.raised = ~ok,
                !.failures = IF ok THEN @ ELSE @ + 1]

\* query.answer() raises: the handler ends before it reads user_data
QueryAnswerRaises ==
    /\ MayFail(FALSE)
    /\ quiz_log' = Handled(quiz_log, NoPress, "none", "none", FALSE)
    /\ UNCHANGED user_data
    /\ UNCHANGED scan_vars

\* a button "start_quiz_<topic>" is pressed.  outcome "sent": every message
\* went out; "caught": a call in the try block raised and the handler's
\* reply went out; "raised": the reply of the except handler raised too.
StartPress ==
    /\ \E topic \in Topics :
       \E doc \in Loads(topic), outcome \in {"sent", "caught", "raised"} :
        LET d1 == Put(Put(Put(Put(user_data, QUIZ_STATE, TRUE),
                              CURRENT_QUESTION_INDEX, 0),
                          CORRECT_ANSWERS_COUNT, 0),
                      QUIZ_TOPIC, topic)
            d2 == IF Len(doc) = 0 THEN d1 ELSE Put(d1, QUIZ_DATA, doc)
            log1 == [quiz_log EXCEPT !.right = {}]
            load == IF Len(doc) = 0 THEN "empty"
                    ELSE IF outcome = "sent" THEN "ok" ELSE "exception"
        IN  /\ MayFail(outcome = "sent")
            /\ IF outcome = "raised" THEN
                    /\ user_data' = d2
                    /\ quiz_log' = Handled(log1, StartData(topic), load, "none", FALSE)
               ELSE IF outcome = "caught" THEN
                    /\ user_data' = Pop(d2, QUIZ_STATE)
                    /\ quiz_log' = [Handled(log1, StartData(topic), load,
                                            "error_loading", TRUE)
                                        EXCEPT !.failures = @ + 1]
               ELSE IF Len(doc) = 0 THEN
                    /\ user_data' = Pop(d2, QUIZ_STATE)
                    /\ quiz_log' = Handled(log1, StartData(topic), load,
                                           "could_not_load", TRUE)
               ELSE
                    /\ user_data' = d2
                    /\ quiz_log' = Handled(log1, StartData(topic), load,
                                           "question", TRUE)
    /\ UNCHANGED scan_vars

\* an answer that is for the current question: the score, the feedback (edit,
\* else reply), the index, then the next question or the end of the quiz
AcceptAnswer(press, feedback, sent) ==
    LET quiz_data == user_data[QUIZ_DATA]
        current_index == GetOr(user_data, CURRENT_QUESTION_INDEX, 0)
        correct_count == GetOr(user_data, CORRECT_ANSWERS_COUNT, 0)
        current_question == quiz_data[current_index + 1]
        is_correct == press.option = current_question.correct_answer
        d1 == IF is_correct
              THEN Put(user_data, CORRECT_ANSWERS_COUNT, correct_count + 1)
              ELSE user_data
        d2 == Put(d1, CURRENT_QUESTION_INDEX, current_index + 1)
        log2 == IF is_correct
                THEN [quiz_log EXCEPT !.right = @ \cup {current_index}]
                ELSE quiz_log
    IN  IF ~feedback THEN
            \* edit_message_text and the fallback reply_text both raise
            /\ user_data' = d1
            /\ quiz_log' = Handled(quiz_log, press, "none", "none", FALSE)
        ELSE IF current_index + 1 >= Len(quiz_data) THEN
            /\ user_data' = EndQuiz(d2)
            /\ quiz_log' =
                 IF sent
                 THEN [Handled(log2, press, "none", "score", TRUE)
                          EXCEPT !.reported = << FinalMessage(d2, log2) >>]
                 ELSE Handled(log2, press, "none", "none", FALSE)
        ELSE
            /\ user_data' = d2
            /\ quiz_log' = Handled(log2, press, "none", "question", sent)

RejectClearsState(press, reply, sent) ==
    /\ quiz_log' = Handled(quiz_log, press, "none", reply, sent)
    /\ user_data' = EndQuiz(user_data)

\* replies that leave user_data as it is
Reject(press, reply, sent) ==
    /\ quiz_log' = Handled(quiz_log, press, "none", reply, sent)
    /\ UNCHANGED user_data

\* an answer button is pressed
AnswerPress ==
    /\ \E press \in AnswerPresses, feedback \in BOOLEAN, sent \in BOOLEAN :
        /\ MayFail(feedback /\ sent)
        /\ ~(~feedback /\ ~sent)
        /\ IF ~GetOr(user_data, QUIZ_STATE, FALSE) THEN
                Reject(press, "not_in_quiz", feedback /\ sent)
           ELSE IF press.parts # 3 THEN
                Reject(press, "error_processing", feedback /\ sent)
           ELSE IF GetOr(user_data, QUIZ_TOPIC, "none") # press.topic THEN
                Reject(press, "previous_quiz", feedback /\ sent)
           ELSE IF QUIZ_DATA \notin DOMAIN user_data
                   \/ GetOr(user_data, CURRENT_QUESTION_INDEX, 0)
                        >= Len(user_data[QUIZ_DATA]) THEN
                /\ user_data' = EndQuiz(user_data)
                /\ quiz_log' =
                     IF feedback /\ sent
                     THEN [Handled(quiz_log, press, "none", "score", TRUE)
                              EXCEPT !.reported =
                                        << FinalMessage(user_data, quiz_log) >>]
                     ELSE Handled(quiz_log, press, "none", "none", FALSE)
           ELSE IF user_data[QUIZ_DATA][GetOr(user_data, CURRENT_QUESTION_INDEX, 0) + 1]
                       .question_id = press.question_id THEN
                AcceptAnswer(press, feedback, sent)
           ELSE Reject(press, "old_button", feedback /\ sent)
    /\ UNCHANGED scan_vars

QuizNext == QueryAnswerRaises \/ StartPress \/ AnswerPress

QuizSpec == QuizInit /\ [][QuizNext]_vars

\* ------------------------------------------------------------- concurrent scans
\* handle_url_message awaits scan_url(url) once per update.  With several
\* updates being handled, several calls of scan_url are in flight; each call
\* keeps its locals in its own coroutine frame and gives up control only at an
\* await (a request or asyncio.sleep).  In this specification the variables
\* url, pc, i, gsb_result, vt_result, branch, result, requests, current_delay
\* and received are functions of the scan; the API keys are the environment
\* all scans read.
ScanIds == {1, 2}

ConcURLs == { << 97, 47 >>, << 98 >> }

ConcGsbResponses == { GsbResp(200, "json", m, PlainText) : m \in { << >>, << 1 >> } }

ConcLookupResponses ==
    { VtResp(404, "none", NoStats, PlainText),
      VtResp(200, "json", [k \in {"malicious"} |-> MaxCount], PlainText) }

ConcSubmitResponses ==
    { VtResp(200, "id", NoStats, PlainText),
      VtResp(500, "none", NoStats, PlainText) }

ConcPollResponses ==
    { VtResp(200, "queued", NoStats, PlainText),
      VtResp(200, "completed", [k \in {"harmless"} |-> MaxCount], PlainText),
      VtResp(500, "none", NoStats, PlainText) }

\* mutant: the loop index is one variable of the module, shared by all calls
FrameShared(s) == 1

\* the coroutine frame that holds the loop index of scan s
Frame(s) == s

\* the locals of scan s
Local(s) ==
    [ url |-> url[s], pc |-> pc[s], i |-> i[Frame(s)],
      gsb_result |-> gsb_result[s], vt_result |-> vt_result[s],
      branch |-> branch[s], result |-> result[s],
      requests |-> requests[s], current_delay |-> current_delay[s] ]

\* the locals of a call scan_url(u) before its first step
InitLocal(u) ==
    [ url |-> u, pc |-> "start", i |-> 0,
      gsb_result |-> Empty, vt_result |-> Empty,
      branch |-> "none", result |-> Empty,
      requests |-> [gsb |-> 0, lookup |-> 0, submit |-> 0, poll |-> 0],
      current_delay |-> 0 ]

\* scan_url_with_virustotal returns text; scan_url composes its result
StepVtReturns(st, text) ==
    [st EXCEPT !.pc = "done", !.vt_result = text,
               !.result = Compose(st.branch, st.gsb_result, text)]

\* scan_url from the return of scan_url_with_gsb up to the next await
StepAfterGsb(st, vk, gsb) ==
    LET br == Branch(gsb)
        st1 == [st EXCEPT !.gsb_result = gsb, !.branch = br]
    IN  IF br = "return" THEN [st1 EXCEPT !.pc = "done", !.result = gsb]
        ELSE IF ~vk THEN
            [st1 EXCEPT !.pc = "done", !.vt_result = VT_NO_KEY,
                        !.result = Compose(br, gsb, VT_NO_KEY)]
        ELSE IF ~Encodable(st.url) THEN [st1 EXCEPT !.pc = "raised"]
        ELSE [st1 EXCEPT !.pc = "vt_lookup", !.requests.lookup = @ + 1]

\* one step of a call of scan_url, from one await to the next, as a function
\* of its locals st, the API keys and the response r the await delivers
Step(st, gk, vk, r) ==
    LET link == public_report_url(st.url)
    IN  IF st.pc = "start" THEN
            IF ~gk THEN StepAfterGsb(st, vk, GSB_NO_KEY)
            ELSE IF ~Encodable(st.url) THEN [st EXCEPT !.pc = "raised"]
            ELSE [st EXCEPT !.pc = "gsb_request", !.requests.gsb = @ + 1]
        ELSE IF st.pc = "gsb_request" THEN StepAfterGsb(st, vk, GsbReport(r))
        ELSE IF st.pc = "vt_lookup" THEN
            LET step == LookupStep(r, link)
            IN  IF step.next = "return" THEN StepVtReturns(st, step.text)
                ELSE [st EXCEPT !.pc = "vt_submit", !.requests.submit = @ + 1]
        ELSE IF st.pc = "vt_submit" THEN
            LET step == SubmitStep(r, link)
            IN  IF step.next = "return" THEN StepVtReturns(st, step.text)
                ELSE [st EXCEPT !.pc = "vt_sleep", !.i = 0]
        ELSE IF st.pc = "vt_sleep" THEN
            [st EXCEPT !.current_delay = Delay(st.i),
                       !.requests.poll = IF @ < PollCap THEN @ + 1 ELSE @,
                       !.pc = "vt_poll"]
        ELSE IF st.pc = "vt_poll" THEN
            LET step == PollStep(r, st.i, link)
            IN  IF step.next = "return" THEN StepVtReturns(st, step.text)
                ELSE IF LoopContinues(st.i) THEN
                    [st EXCEPT !.pc = "vt_sleep", !.i = NextIndex(st.i)]
                ELSE StepVtReturns(st, VT_TIMED_OUT(link))
        ELSE st

\* scan_url run on its own: the steps applied to the events h in order
RECURSIVE Run(_, _, _, _)
Run(st, gk, vk, h) ==
    IF h = << >> THEN st ELSE Run(Step(st, gk, vk, Head(h)), gk, vk, Tail(h))

ConcInit ==
    /\ url \in [ScanIds -> ConcURLs]
    /\ gsb_key \in BOOLEAN
    /\ vt_key \in BOOLEAN
    /\ pc = [s \in ScanIds |-> "start"]
    /\ i = [s \in ScanIds |-> 0]
    /\ gsb_result = [s \in ScanIds |-> Empty]
    /\ vt_result = [s \in ScanIds |-> Empty]
    /\ branch = [s \in ScanIds |-> "none"]
    /\ result = [s \in ScanIds |-> Empty]
    /\ requests = [s \in ScanIds |-> InitLocal(url[s]).requests]
    /\ current_delay = [s \in ScanIds |-> 0]
    /\ received = [s \in ScanIds |-> << >>]
    /\ waited = 0
    /\ user_data = EmptyUserData
    /\ quiz_log = EmptyQuizLog
    /\ gsb_response = NoGsbResponse
    /\ report_response = NoResponse
    /\ submit_response = NoResponse
    /\ attributes = NoStats
    /\ verdicts = 0
    /\ all_pending = TRUE

\* scan s runs from its await to its next await, the await delivering r
Deliver(s, r) ==
    LET nx == Step(Local(s), gsb_key, vt_key, r)
    IN  /\ pc' = [pc EXCEPT ![s] = nx.pc]
        /\ i' = [i EXCEPT ![Frame(s)] = nx.i]
        /\ gsb_result' = [gsb_result EXCEPT ![s] = nx.gsb_result]
        /\ vt_result' = [vt_result EXCEPT ![s] = nx.vt_result]
        /\ branch' = [branch EXCEPT ![s] = nx.branch]
        /\ result' = [result EXCEPT ![s] = nx.result]
        /\ requests' = [requests EXCEPT ![s] = nx.requests]
        /\ current_delay' = [current_delay EXCEPT ![s] = nx.current_delay]
        /\ received' = [received EXCEPT ![s] = Append(@, r)]
        /\ UNCHANGED << url, gsb_key, vt_key, gsb_response, report_response,
                        submit_response, attributes, verdicts, all_pending,
                        waited,
                    user_data, quiz_log >>

ConcScanUrl(s) == pc[s] = "start" /\ Deliver(s, NoResponse)

ConcGsbResponse(s) ==
    pc[s] = "gsb_request" /\ \E r \in ConcGsbResponses : Deliver(s, r)

ConcLookupResponse(s) ==
    pc[s] = "vt_lookup" /\ \E r \in ConcLookupResponses : Deliver(s, r)

ConcSubmitResponse(s) ==
    pc[s] = "vt_submit" /\ \E r \in ConcSubmitResponses : Deliver(s, r)

ConcSleep(s) == pc[s] = "vt_sleep" /\ Deliver(s, NoResponse)

ConcPollResponse(s) ==
    pc[s] = "vt_poll" /\ \E r \in ConcPollResponses : Deliver(s, r)

ConcNext ==
    \E s \in ScanIds :
        \/ ConcScanUrl(s)
        \/ ConcGsbResponse(s)
        \/ ConcLookupResponse(s)
        \/ ConcSubmitResponse(s)
        \/ ConcSleep(s)
        \/ ConcPollResponse(s)

ConcSpec == ConcInit /\ [][ConcNext]_vars

\* ============================================================= claims
HasLink(text) ==
    \E k \in 1..Len(text) : text[k] = Tok("link", get_vt_url_id(url), {})

NoVtRequests ==
    requests.lookup = 0 /\ requests.submit = 0 /\ requests.poll = 0

GsbMatched ==
    gsb_response.status = 200 /\ gsb_response.shape = "json"
    /\ gsb_response.matches > 0

GsbNoMatch ==
    gsb_response.status = 200 /\ gsb_response.shape = "json"
    /\ gsb_response.matches = 0

GsbFailed ==
    \/ ~gsb_key
    \/ gsb_response.status \in {0} \cup GsbErrorStatuses
    \/ gsb_response.status = 200 /\ gsb_response.shape # "json"

VtMalicious ==
    verdicts > 0
    /\ Get(attributes, "malicious") + Get(attributes, "suspicious") > 0

SubmitAccepted == submit_response = [status |-> 200, shape |-> "id"]

\* C1 (as claimed): for every URL, key combination and sequence of provider
\* outcomes, scan_url ends by returning a non-empty report and no exception
\* escapes.
C1_ScanAlwaysReturnsReport ==
    pc # "raised" /\ (pc = "done" => result # Empty)

\* C2: when the GSB response is a success with at least one match, scan_url
\* returns exactly the GSB malicious report (its head, the matched threat
\* types, its tail) and no lookup, submit or poll request is issued.
C2_GsbMatchReturnedVerbatim ==
    GsbMatched =>
        /\ pc = "done"
        /\ result = gsb_result
        /\ Len(result) >= 3
        /\ Head(result).id = "gsb_danger_detected_as"
        /\ result[Len(result)].id = "gsb_danger_by_google_safe_browsing"
        /\ \A k \in 2..(Len(result) - 1) : result[k].id = "threat"
        /\ vt_result = Empty
        /\ NoVtRequests

C2_Witness == GsbMatched /\ pc = "done" /\ gsb_response.matches = MaxMatches

\* C3 (as claimed): after every kind of GSB failure scan_url returns the GSB
\* error report unchanged and issues no lookup, submit or poll request.
C3_GsbFailureReturnedAtOnce ==
    GsbFailed =>
        /\ NoVtRequests
        /\ pc = "done" => result = gsb_result

\* C4: when GSB reports no match and the VirusTotal verdict is malicious,
\* scan_url returns the VirusTotal malicious report alone, without the GSB
\* safe text and without the separator.
C4_VtDangerAlone ==
    (GsbNoMatch /\ VtMalicious /\ pc = "done") =>
        /\ result = vt_result
        /\ Head(result).id = "vt_danger"
        /\ ~HasId(result, "gsb_appears_safe")
        /\ ~HasId(result, "separator_virustotal_scan")

C4_Witness ==
    /\ GsbNoMatch /\ VtMalicious /\ pc = "done"
    /\ Get(attributes, "harmless") > 0

\* C5 (as claimed): when GSB reports no match and the VirusTotal outcome is
\* anything but a malicious verdict, scan_url returns the GSB safe text, the
\* separator and the VirusTotal text, in that order and unmodified.
C5_BothOpinionsKept ==
    (GsbNoMatch /\ ~VtMalicious /\ pc = "done") =>
        /\ gsb_result = GSB_SAFE
        /\ result = GSB_SAFE \o SEPARATOR \o vt_result

\* C6: without GOOGLE_SAFE_BROWSE_API_KEY no GSB request is issued, the
\* configuration-error report is what scan_url returns, and no VirusTotal
\* request is issued.
C6_NoGsbKeyNoRequests ==
    ~gsb_key =>
        /\ requests.gsb = 0
        /\ NoVtRequests
        /\ pc \in {"start", "done"}
        /\ pc = "done" =>
            /\ Len(gsb_result) = 1
            /\ Head(gsb_result).id = "gsb_key_not_configured"
            /\ result = gsb_result

C6_Witness == ~gsb_key /\ vt_key /\ pc = "done"

\* C7: after an accepted submission, a scan all of whose poll responses were
\* queued, running or 404 ends only after exactly 10 poll requests, with the
\* "still processing" report carrying the public report link.
C7_PendingEndsAfterTenPolls ==
    (SubmitAccepted /\ all_pending /\ pc = "done") =>
        /\ requests.poll = retries
        /\ Head(vt_result).id = "vt_still_processing"
        /\ HasLink(vt_result)

C7_Witness ==
    /\ SubmitAccepted /\ all_pending /\ pc = "done"
    /\ requests.poll = retries
    /\ report_response.status = 404

\* C8: at most 10 poll requests and at most one GSB, one lookup and one
\* submit request are issued in a scan.
C8_RequestsBounded ==
    /\ requests.poll <= retries
    /\ requests.gsb <= 1
    /\ requests.lookup <= 1
    /\ requests.submit <= 1

C8_Witness ==
    /\ requests.poll = retries
    /\ requests.gsb = 1 /\ requests.lookup = 1 /\ requests.submit = 1

\* C9: when every network call and every sleep completes, every scan
\* eventually terminates, by returning or by raising.
C9_ScanTerminates == <>(pc \in {"done", "raised"})

C9_Witness ==
    /\ pc = "done" /\ all_pending /\ requests.poll = retries
    /\ report_response = [status |-> 200, shape |-> "queued"]

\* C10: _process_vt_report_verdict splits three ways (a missing count reads
\* as 0): malicious + suspicious > 0 gives the malicious report showing both
\* counts, whatever harmless is; otherwise harmless > 0 gives the safe report
\* showing the harmless count; otherwise the inconclusive report; each report
\* carries the public report link.
C10_VerdictThreeWay ==
    pc = "verdict_done" =>
        LET m == Get(attributes, "malicious")
            s == Get(attributes, "suspicious")
            h == Get(attributes, "harmless")
        IN  /\ m + s > 0 =>
                /\ Head(vt_result).id = "vt_danger"
                /\ vt_result[2] = Tok("num", << m >>, {})
                /\ vt_result[4] = Tok("num", << s >>, {})
            /\ (m + s = 0 /\ h > 0) =>
                /\ Head(vt_result).id = "vt_appears_safe"
                /\ vt_result[2] = Tok("num", << h >>, {})
            /\ (m + s = 0 /\ h = 0) => Head(vt_result).id = "vt_inconclusive"
            /\ HasLink(vt_result)

C10_Witness ==
    /\ pc = "verdict_done"
    /\ "malicious" \notin DOMAIN attributes
    /\ Get(attributes, "suspicious") = 1
    /\ Get(attributes, "harmless") = MaxVerdictCount
    /\ Head(vt_result).id = "vt_danger"

HeadIs(text, id) == text # Empty /\ Head(text).id = id

\* C11: a provider's malicious report is produced only from a successful
\* response of that provider that reports a detection (GSB: a match;
\* VirusTotal: malicious + suspicious > 0), and a provider's safe report only
\* from a successful response of that provider, never from a transport or
\* HTTP failure.
C11_VerdictsFromEvidence ==
    /\ HeadIs(gsb_result, "gsb_danger_detected_as") => GsbMatched
    /\ HeadIs(gsb_result, "gsb_appears_safe") => GsbNoMatch
    /\ HeadIs(vt_result, "vt_danger") =>
        /\ report_response.status = 200
        /\ report_response.shape \in {"json", "completed"}
        /\ Get(attributes, "malicious") + Get(attributes, "suspicious") > 0
    /\ HeadIs(vt_result, "vt_appears_safe") =>
        /\ report_response.status = 200
        /\ report_response.shape \in {"json", "completed"}
        /\ Get(attributes, "malicious") + Get(attributes, "suspicious") = 0
        /\ Get(attributes, "harmless") > 0

C11_Witness ==
    /\ HeadIs(gsb_result, "gsb_appears_safe")
    /\ HeadIs(vt_result, "vt_danger")
    /\ report_response.shape = "completed"

\* what a scan shows of itself: where it is, the requests it has issued, the
\* delay of its last sleep (initial_delay + 2 * its poll index) and its reports
Seen(st) ==
    [ pc |-> st.pc, requests |-> st.requests, current_delay |-> st.current_delay,
      gsb_result |-> st.gsb_result, vt_result |-> st.vt_result,
      result |-> st.result ]

LinkTokens(text) == { text[k] : k \in { j \in 1..Len(text) : text[j].id = "link" } }

\* the report templates of scan_url_with_virustotal that end with the public
\* report link
LinkReports ==
    { "vt_danger", "vt_appears_safe", "vt_inconclusive",
      "vt_invalid_url_format", "vt_could_not_initiate_common_url",
      "vt_still_processing", "vt_unexpected_status", "vt_timed_out" }

\* C13: the VirusTotal identifier is a function of the URL alone ("a/" gives
\* "YS8", alphabet indices 24, 18, 60), every link a scan's reports carry is
\* the link built from it, and every report template that has a link carries
\* it whichever of lookup, submission or poll produced the report.
C13_OneLinkPerScan ==
    /\ \A t \in LinkTokens(vt_result) \cup LinkTokens(result) :
          url = << 97, 47 >> /\ t.v = << 24, 18, 60 >>
    /\ (vt_result # Empty /\ Head(vt_result).id \in LinkReports) =>
          Cardinality(LinkTokens(vt_result)) = 1

C13_Witness ==
    /\ pc = "done"
    /\ HeadIs(vt_result, "vt_invalid_url_format")
    /\ LinkTokens(result) = { Tok("link", << 24, 18, 60 >>, {}) }

\* C14: when the polling loop has made all ten attempts and the last one did
\* not end the scan either (a 2xx answer other than 200 is the one answer the
\* last attempt lets pass), the scan ends with the "timed out, check later"
\* report carrying the public link; that report is produced in no other way.
C14_ExhaustedLoopTimesOut ==
    /\ ( /\ pc = "done"
         /\ SubmitAccepted
         /\ requests.poll = retries
         /\ report_response.status \in 201..299 ) =>
            /\ HeadIs(vt_result, "vt_timed_out")
            /\ HasLink(vt_result)
            /\ i = retries - 1
    /\ HeadIs(vt_result, "vt_timed_out") =>
            /\ requests.poll = retries
            /\ report_response.status \in 201..299

C14_Witness ==
    /\ pc = "done"
    /\ requests.poll = retries
    /\ HeadIs(vt_result, "vt_timed_out")
    /\ HeadIs(result, "gsb_appears_safe")

\* C15: one scan issues its requests in the order GSB, lookup, submission,
\* polls: no VirusTotal request before the GSB stage has been classified (and
\* let the scan go on), no submission before the lookup response, no poll
\* unless the one submission was answered 2xx with an analysis id; each of the
\* first three requests is made at most once.
C15_RequestOrder ==
    /\ requests.gsb <= 1 /\ requests.lookup <= 1 /\ requests.submit <= 1
    /\ pc = "gsb_request" => NoVtRequests
    /\ requests.lookup > 0 =>
        /\ branch \in {"safe", "fallback"}
        /\ gsb_result # Empty
        /\ gsb_key => (requests.gsb = 1 /\ gsb_response # NoGsbResponse)
    /\ pc = "vt_lookup" =>
        requests.submit = 0 /\ requests.poll = 0 /\ report_response = NoResponse
    /\ requests.submit > 0 =>
        requests.lookup = 1 /\ report_response # NoResponse
    /\ pc = "vt_submit" => requests.poll = 0 /\ submit_response = NoResponse
    /\ requests.poll > 0 => requests.submit = 1 /\ SubmitAccepted

C15_Witness ==
    /\ pc = "vt_poll"
    /\ requests = [gsb |-> 1, lookup |-> 1, submit |-> 1, poll |-> 2]

LookupFoundStats ==
    /\ report_response = [status |-> 200, shape |-> "json"]
    /\ requests.lookup = 1 /\ requests.poll = 0
    /\ attributes # NoStats

\* C16: when the lookup answers 200 with analysis statistics, the VirusTotal
\* result is the verdict computed from exactly those statistics, and the scan
\* makes no submission and no poll.
C16_ExistingReportUsed ==
    LookupFoundStats =>
        /\ pc = "done"
        /\ verdicts = 1
        /\ vt_result = _process_vt_report_verdict(attributes, public_report_url(url))
        /\ requests.submit = 0
        /\ submit_response = NoResponse

C16_Witness ==
    /\ LookupFoundStats
    /\ pc = "done"
    /\ HeadIs(vt_result, "vt_appears_safe")
    /\ attributes = [k \in StatKeys |-> IF k = "harmless" THEN MaxCount ELSE 0]

\* the lookup response is the last VirusTotal response received
LookupAnswered ==
    requests.lookup = 1 /\ requests.poll = 0 /\ report_response # NoResponse

LookupWithoutStats ==
    /\ report_response = [status |-> 200, shape |-> "json"]
    /\ attributes = NoStats

\* C17 as stated: a submit request is issued only when the lookup response
\* was 404 or 200 without analysis statistics; after every other lookup
\* status no submit request is made.
C17_SubmitOnly404Or200 ==
    /\ pc = "vt_submit" => (report_response.status = 404 \/ LookupWithoutStats)
    /\ (LookupAnswered /\ report_response.status \notin {200, 404}) =>
            requests.submit = 0

\* C17: a submit request is issued only when the lookup response was 404,
\* 200 without analysis statistics, or a 2xx status other than 200 (which
\* raise_for_status lets pass); after every non-2xx status other than 404 no
\* submit request is made.
C17_SubmitOnly404Or2xx ==
    /\ pc = "vt_submit" =>
        \/ report_response.status = 404
        \/ LookupWithoutStats
        \/ report_response.status \in 201..299
    /\ (LookupAnswered /\ report_response.status \notin (200..299) \cup {404}) =>
            requests.submit = 0

C17_Witness ==
    /\ pc = "vt_submit"
    /\ requests.submit = 1
    /\ report_response.status \in 201..299

\* C18: a lookup answered 401 or 403 ends the VirusTotal call with the
\* API-key report or the quota report, any other non-2xx lookup status except
\* 404 ends it with the generic error report that shows the status code; in
\* both cases no submit and no poll request is issued.
C18_LookupErrorsTerminal ==
    /\ (LookupAnswered /\ report_response.status = 401) =>
            pc = "done" /\ vt_result = VT_401 /\ requests.submit = 0
    /\ (LookupAnswered /\ report_response.status = 403) =>
            pc = "done" /\ vt_result = VT_403 /\ requests.submit = 0
    /\ ( /\ LookupAnswered
         /\ report_response.status > 0
         /\ report_response.status \notin (200..299) \cup {401, 403, 404} ) =>
            /\ pc = "done"
            /\ HeadIs(vt_result, "vt_scanning_issue_http_error")
            /\ Len(vt_result) >= 2
            /\ vt_result[2] = Tok("num", << report_response.status >>, {})
            /\ requests.submit = 0

C18_Witness ==
    /\ LookupAnswered
    /\ report_response.status = 500
    /\ pc = "done"
    /\ HeadIs(result, "gsb_appears_safe")

SubmitFailed == submit_response # NoResponse /\ ~SubmitAccepted

SubmitBodyUnusable == submit_response.shape \in {"unparsable", "badshape"}

\* the reports of the failed submissions whose body is a JSON object, and of
\* the statuses that raise
SubmitReportsByKind ==
    /\ submit_response = [status |-> 400, shape |-> "canonicalize"] =>
            vt_result = VT_INVALID_FORMAT(public_report_url(url))
    /\ submit_response = [status |-> 400, shape |-> "wrongid"] =>
            vt_result = VT_COMMON_URL(public_report_url(url))
    /\ submit_response = [status |-> 400, shape |-> "nomsg"] =>
            vt_result = VT_SUBMIT_ISSUE(F("vt_malformed_url_or_api_error", {}))
    /\ submit_response = [status |-> 400, shape |-> "other"] =>
            HeadIs(vt_result, "vt_issue_submitting")
    /\ submit_response.status = 0 => vt_result = VT_CONNECT
    /\ (submit_response.status > 0
        /\ submit_response.status \notin (200..299) \cup {400}) =>
            /\ HeadIs(vt_result, "vt_scanning_issue_http_error")
            /\ vt_result[2] = Tok("num", << submit_response.status >>, {})
    /\ submit_response = [status |-> 200, shape |-> "noid"] =>
            vt_result = VT_NO_ID

\* C19 as stated: every failed submission is terminal with zero polls; 400
\* canonicalize gives the invalid-format report with the link, 400 "Wrong URL
\* id" the pointer to the existing report, ANY other 400 the report with the
\* provider's message, any other non-2xx an error report, and ANY 2xx without
\* an analysis id the "could not initiate scan" report.
C19_FailedSubmitReports ==
    /\ SubmitFailed => (pc = "done" /\ requests.poll = 0)
    /\ SubmitReportsByKind
    /\ ( /\ submit_response.status = 400
         /\ submit_response.shape \notin {"canonicalize", "wrongid"} ) =>
            HeadIs(vt_result, "vt_issue_submitting")
    /\ (submit_response.status \in 200..299 /\ ~SubmitAccepted) =>
            vt_result = VT_NO_ID

\* C19: every failed submission is terminal with zero polls; the reports are
\* those of the claim when the body of the 400 or 2xx answer is a JSON object
\* (a 400 without a message shows the default message), and the "unexpected
\* error" report when that body cannot be read as one.
C19_FailedSubmitTerminal ==
    /\ SubmitFailed => (pc = "done" /\ requests.poll = 0)
    /\ SubmitReportsByKind
    /\ (submit_response.status \in (200..299) \cup {400} /\ SubmitBodyUnusable) =>
            vt_result = VT_UNEXPECTED

C19_Witness ==
    /\ pc = "done"
    /\ submit_response = [status |-> 400, shape |-> "unparsable"]
    /\ vt_result = VT_UNEXPECTED
    /\ requests.poll = 0

\* the last poll was answered 200 with an "error" key in the body
ErrorFieldPolled ==
    /\ requests.poll > 0
    /\ report_response.status = 200
    /\ report_response.shape \in ErrorShapes \cup {"error_nomsg", "error_badshape"}

\* C20: a poll answered 200 whose body has an error field ends the scan with
\* an error report on that attempt, whatever status or statistics the body
\* carries (no verdict is computed even when the status is "completed"), and
\* no further poll is issued.
C20_ErrorFieldEndsScan ==
    ErrorFieldPolled =>
        /\ pc = "done"
        /\ verdicts = 0
        /\ requests.poll = i + 1
        /\ IF report_response.shape = "error_badshape"
           THEN vt_result = VT_UNEXPECTED
           ELSE HeadIs(vt_result, "vt_error_fetching_report")

C20_Witness ==
    /\ pc = "done"
    /\ report_response = [status |-> 200, shape |-> "error_completed"]
    /\ i = 3 /\ requests.poll = 4
    /\ HeadIs(vt_result, "vt_error_fetching_report")

\* the last poll was answered 200, status "completed", no error field
CompletedPolled ==
    /\ requests.poll > 0
    /\ report_response = [status |-> 200, shape |-> "completed"]

\* C21: at whichever poll attempt k (1..10) a 200 response with status
\* "completed" arrives, the loop ends there: the VirusTotal result is the
\* verdict of the statistics of that response, exactly k poll requests have
\* been made (k = i + 1) and none follows.
C21_CompletedEndsLoop ==
    CompletedPolled =>
        /\ pc = "done"
        /\ requests.poll = i + 1 /\ requests.poll \in 1..retries
        /\ verdicts = 1
        /\ vt_result = _process_vt_report_verdict(attributes, public_report_url(url))

C21_Witness ==
    /\ CompletedPolled
    /\ pc = "done"
    /\ requests.poll = 7
    /\ HeadIs(vt_result, "vt_danger")
    /\ Get(attributes, "malicious") = MaxCount

\* the last poll was answered 200 and the body has no "error" key
NoErrorFieldPolled ==
    /\ requests.poll > 0
    /\ report_response.status = 200
    /\ report_response.shape \in {"completed", "queued", "running", "other",
                                  "nostatus", "unparsable", "badshape"}

\* the status read from the body is neither completed, queued nor running
\* ("nostatus": there is none)
OtherStatusPolled ==
    NoErrorFieldPolled /\ report_response.shape \in {"other", "nostatus"}

\* the body is not a JSON object from which attributes can be read
UnreadablePolled ==
    NoErrorFieldPolled /\ report_response.shape \in {"unparsable", "badshape"}

EndedOnThatAttempt == pc = "done" /\ requests.poll = i + 1 /\ verdicts = 0

UnexpectedStatusReport ==
    HeadIs(vt_result, "vt_unexpected_status") /\ HasLink(vt_result)

\* C22 as stated: every poll answered 200 without an error field whose status
\* is not completed, queued or running, a missing status included, ends the
\* scan on that attempt with the "unexpected status" report and the link.
C22_OtherStatusReport ==
    ( NoErrorFieldPolled
      /\ report_response.shape \notin {"completed", "queued", "running"} ) =>
        EndedOnThatAttempt /\ UnexpectedStatusReport

\* C22: a poll answered 200 without an error field ends the scan on that
\* attempt, without a retry, with the "unexpected status" report and the link
\* when the status read from the body is not completed, queued or running
\* (or is missing), and with the "unexpected scan error" report when no
\* attributes can be read from the body.
C22_OtherStatusTerminal ==
    /\ OtherStatusPolled => (EndedOnThatAttempt /\ UnexpectedStatusReport)
    /\ UnreadablePolled => (EndedOnThatAttempt /\ vt_result = VT_UNEXPECTED)

C22_Witness ==
    /\ OtherStatusPolled
    /\ report_response.shape = "nostatus"
    /\ i = 2
    /\ UnexpectedStatusReport

\* the last poll was answered with a status that raise_for_status rejects
\* (a lookup answered so is never followed by a poll)
ErrorStatusPolled ==
    /\ requests.poll > 0
    /\ report_response.status > 0
    /\ report_response.status \notin (200..299) \cup {404}

\* C23: a poll answered with a non-2xx status other than 404 ends the scan at
\* once, on whichever attempt, with the error report that shows the status; no
\* further poll is issued even when attempts remain.
C23_PollErrorStatusTerminal ==
    ErrorStatusPolled =>
        /\ EndedOnThatAttempt
        /\ HeadIs(vt_result, "vt_scanning_issue_http_error")
        /\ vt_result[2] = Tok("num", << report_response.status >>, {})

C23_Witness ==
    /\ ErrorStatusPolled
    /\ report_response.status = 500
    /\ pc = "done"
    /\ requests.poll = 2

\* fewer than ten polls have been made and the last response is ...
\* ... 404, "not yet available"
NotYetAvailablePolled ==
    requests.poll \in 1..(retries - 1) /\ report_response.status = 404

\* ... a transport failure (timeout, no connection) or a 5xx status
FailurePolled ==
    /\ requests.poll \in 1..(retries - 1)
    /\ report_response.status \in {0} \cup (500..599)

\* the scan is at the sleep before its next poll, or at that poll
InLoop == pc \in {"vt_sleep", "vt_poll"}

\* C24 as stated: a poll that fails with a timeout or connection failure, a
\* 5xx status or a 404 while fewer than ten attempts have been made is
\* retried: the scan stays in the loop and another poll follows.
C24_TransientRetried ==
    /\ []((NotYetAvailablePolled \/ FailurePolled) => InLoop)
    /\ (pc = "vt_sleep") ~> (pc = "vt_poll")

\* C24: of these only the 404 is retried (the scan stays in the loop and
\* another poll follows); a timeout, a connection failure or a 5xx status
\* ends the scan on that attempt.
C24_Only404Retried ==
    /\ [](NotYetAvailablePolled => InLoop)
    /\ [](FailurePolled => EndedOnThatAttempt)
    /\ (pc = "vt_sleep") ~> (pc = "vt_poll")

C24_Witness ==
    /\ NotYetAvailablePolled
    /\ pc = "vt_poll"
    /\ requests.poll = 3
    /\ all_pending

\* C25: the scan sleeps before every poll, the first included, and the sleep
\* before attempt i (0..9) is exactly 5 + 2*i: after p polls the delays slept
\* are 5, 7, ..., 5 + 2*(p-1), strictly increasing, their sum 5*p + p*(p-1);
\* a scan that uses all ten attempts has waited 140 in all, and no scan more.
C25_LinearBackoff ==
    /\ requests.poll \in 0..retries
    /\ waited = (5 * requests.poll) + (requests.poll * (requests.poll - 1))
    /\ waited <= 140
    /\ requests.poll = retries => waited = 140
    /\ requests.poll = 0 => current_delay = 0
    /\ requests.poll > 0 => current_delay = 5 + (2 * (requests.poll - 1))
    /\ pc = "vt_poll" => (i = requests.poll - 1 /\ current_delay = 5 + (2 * i))

C25_Witness ==
    /\ pc = "done"
    /\ requests.poll = retries
    /\ current_delay = 23
    /\ waited = 140

\* C26: the else branch of scan_url (run VirusTotal and return its report
\* alone, GSB not classified as safe) is never taken: every report of
\* scan_url_with_gsb goes to the immediate return or to the safe branch.
C26_FallbackNeverTaken ==
    /\ branch # "fallback"
    /\ gsb_result # Empty => Branch(gsb_result) \in {"return", "safe"}

GsbAnswered == requests.gsb = 1 /\ gsb_response # NoGsbResponse

\* C27: scan_url_with_gsb maps 400 to the invalid-URL report, 401 and 403
\* both to the access-denied/quota report, 404 to the misconfigured-endpoint
\* report, every other error status to the generic report with the status,
\* and a connection failure to the connectivity report.
C27_GsbErrorTaxonomy ==
    GsbAnswered =>
        /\ gsb_response.status = 400 => HeadIs(gsb_result, "gsb_invalid_url")
        /\ gsb_response.status \in {401, 403} =>
                HeadIs(gsb_result, "gsb_access_denied")
        /\ gsb_response.status = 404 => gsb_result = GSB_404
        /\ gsb_response.status \in GsbErrorStatuses \ {400, 401, 403, 404} =>
                /\ HeadIs(gsb_result, "gsb_issue_http_error")
                /\ gsb_result[2] = Tok("num", << gsb_response.status >>, {})
        /\ gsb_response.status = 0 => gsb_result = GSB_CONNECT

\* C28: when GSB reports no match and VIRUSTOTAL_API_KEY is absent, no
\* lookup, submit or poll request is issued, the VirusTotal result is the
\* configuration-error report, and scan_url returns the GSB safe text, the
\* separator and that report.
C28_NoVtKeyNoRequests ==
    (GsbAnswered /\ GsbNoMatch /\ ~vt_key) =>
        /\ pc = "done"
        /\ NoVtRequests
        /\ vt_result = VT_NO_KEY
        /\ result = GSB_SAFE \o SEPARATOR \o VT_NO_KEY

C28_Witness ==
    /\ GsbAnswered /\ GsbNoMatch /\ ~vt_key
    /\ pc = "done"
    /\ Len(result) = 3
    /\ result[3].id = "vt_key_not_configured"

\* a 2xx status other than 200
Other2xx(status) == status \in 201..299

TimedOut == HeadIs(vt_result, "vt_timed_out")

\* the scan has ended on the tenth poll
EndedOnTenth == pc = "done" /\ SubmitAccepted /\ requests.poll = retries

\* C29: the "timed out" return after the loop is reached only when the tenth
\* poll response has a 2xx status other than 200; a tenth response of 200,
\* 404 or an error status ends the scan inside the loop body with another
\* report.  A 2xx-non-200 poll response on an earlier attempt keeps the scan
\* polling, and a 2xx-non-200 lookup response leads to the submission.
C29_TimedOutOnlyOn2xxNon200 ==
    /\ TimedOut => (EndedOnTenth /\ Other2xx(report_response.status))
    /\ (EndedOnTenth /\ ~Other2xx(report_response.status)) =>
        /\ ~TimedOut
        /\ vt_result # Empty
        /\ report_response.status = 404 => vt_result = VT_PROCESSING(public_report_url(url))
    /\ (requests.poll \in 1..(retries - 1) /\ Other2xx(report_response.status)) =>
        InLoop
    /\ (LookupAnswered /\ Other2xx(report_response.status)) =>
        /\ requests.submit = 1
        /\ pc = "vt_submit" \/ submit_response # NoResponse

C29_Witness ==
    /\ pc = "vt_sleep"
    /\ requests.poll = 4 /\ i = 4
    /\ Other2xx(report_response.status)

\* a quiz is active for the user
Active == GetOr(user_data, QUIZ_STATE, FALSE)

\* C30: whenever a quiz is active, 0 <= CORRECT_ANSWERS_COUNT <=
\* CURRENT_QUESTION_INDEX <= number of questions; the count is the number of
\* questions of this quiz that were answered correctly, each counted once;
\* and a final score that is reported is that number, at most the number of
\* questions.
C30_QuizScoreInvariant ==
    /\ Active =>
        /\ {CURRENT_QUESTION_INDEX, CORRECT_ANSWERS_COUNT} \subseteq DOMAIN user_data
        /\ 0 <= user_data[CORRECT_ANSWERS_COUNT]
        /\ user_data[CORRECT_ANSWERS_COUNT] <= user_data[CURRENT_QUESTION_INDEX]
        /\ user_data[CURRENT_QUESTION_INDEX] <= FinalMessage(user_data, quiz_log).total
        /\ user_data[CORRECT_ANSWERS_COUNT] = Cardinality(quiz_log.right)
    /\ quiz_log.reported # << >> =>
        /\ quiz_log.reported[1].score = quiz_log.reported[1].right
        /\ quiz_log.reported[1].score <= quiz_log.reported[1].total

\* the quiz has a current question: the one at CURRENT_QUESTION_INDEX
HasCurrentQuestion(d) ==
    /\ QUIZ_DATA \in DOMAIN d
    /\ GetOr(d, CURRENT_QUESTION_INDEX, 0) < Len(d[QUIZ_DATA])

CurrentQuestion(d) == d[QUIZ_DATA][GetOr(d, CURRENT_QUESTION_INDEX, 0) + 1]

\* the four cases in which an answer press is to be rejected
RejectedCase(d, p) ==
    \/ ~GetOr(d, QUIZ_STATE, FALSE)
    \/ p.parts # 3
    \/ p.topic # GetOr(d, QUIZ_TOPIC, "none")
    \/ HasCurrentQuestion(d) /\ CurrentQuestion(d).question_id # p.question_id

RejectReplies == {"not_in_quiz", "error_processing", "previous_quiz", "old_button"}

\* C31: an answer press handled when no quiz is active, or whose data has
\* not three parts, or whose topic is not the active topic, or whose
\* question_id is not the id of the current question, leaves user_data (all
\* five quiz keys) as it was; nothing is scored or reported, and the only
\* reply sent is one of the four rejections.
C31_RejectedPressKeepsState ==
    [][ (quiz_log'.press \in AnswerPresses /\ RejectedCase(user_data, quiz_log'.press))
        => /\ user_data' = user_data
           /\ quiz_log'.right = quiz_log.right
           /\ quiz_log'.reported = quiz_log.reported
           /\ quiz_log'.reply \in RejectReplies \cup {"none"}
           /\ quiz_log'.raised \/ quiz_log'.reply \in RejectReplies ]_vars

\* a stale button was pressed in the middle of a quiz and rejected
C31_Witness ==
    /\ Active
    /\ quiz_log.reply = "old_button"
    /\ user_data[CURRENT_QUESTION_INDEX] = 1
    /\ user_data[CORRECT_ANSWERS_COUNT] = 1
    /\ HasCurrentQuestion(user_data)
    /\ CurrentQuestion(user_data).question_id # quiz_log.press.question_id

\* the press handled is a quiz start
IsStart(p) == p.option = "start_quiz"

\* the press is an answer to the current question, which is the last one
AnswersLast(d, p) ==
    /\ p \in AnswerPresses
    /\ ~RejectedCase(d, p)
    /\ HasCurrentQuestion(d)
    /\ GetOr(d, CURRENT_QUESTION_INDEX, 0) + 1 = Len(d[QUIZ_DATA])

NoQuizKeys(d) == (DOMAIN d) \cap QuizKeys = {}

\* starting a quiz leaves index 0 and score 0, whatever was there before
StartResets ==
    IsStart(quiz_log'.press)
        => /\ {CURRENT_QUESTION_INDEX, CORRECT_ANSWERS_COUNT} \subseteq DOMAIN user_data'
           /\ user_data'[CURRENT_QUESTION_INDEX] = 0
           /\ user_data'[CORRECT_ANSWERS_COUNT] = 0

\* answering the last question removes the five keys and reports the score
LastAnswerEnds ==
    AnswersLast(user_data, quiz_log'.press)
        => /\ NoQuizKeys(user_data')
           /\ \/ quiz_log'.raised
              \/ /\ quiz_log'.reply = "score"
                 /\ Len(quiz_log'.reported) = 1
                 /\ quiz_log'.reported[1].total = Len(user_data[QUIZ_DATA])

\* once the keys are gone an answer press only gets "not currently in a quiz"
AfterEndNotInQuiz ==
    (quiz_log'.press \in AnswerPresses /\ NoQuizKeys(user_data))
        => /\ user_data' = user_data
           /\ quiz_log'.raised \/ quiz_log'.reply = "not_in_quiz"

\* a start whose content did not load leaves the user not in a quiz
FailedLoadNotInQuiz ==
    (IsStart(quiz_log'.press) /\ quiz_log'.load \in {"empty", "exception"})
        => ~GetOr(user_data', QUIZ_STATE, FALSE)

\* C32: quiz lifecycle.  A quiz start sets index and score to 0 even when a
\* quiz is in progress; answering the last question removes the five quiz
\* keys and reports the score, and from then on an answer press gets the
\* "not currently in a quiz" reply; a quiz start whose content fails to load
\* (nothing usable, or an exception) leaves QUIZ_STATE cleared.
C32_QuizLifecycle ==
    [][ /\ StartResets
        /\ LastAnswerEnds
        /\ AfterEndNotInQuiz
        /\ FailedLoadNotInQuiz ]_vars

====
